---- MODULE Spec2Model ----
(***************************************************************************)
(* A model of transloader/client.py: the TransloadIt client (request       *)
(* parameters, response parsing, the paginating assemblies() generator)    *)
(* and the Assembly object with its lazily fetched, cached status          *)
(* document.                                                               *)
(*                                                                         *)
(* Python values are tagged tuples <<tag, payload>>, so that values of     *)
(* different Python types can be compared: None, strings, integers,        *)
(* booleans, datetimes, dicts (functions from key strings to values) and   *)
(* lists (sequences of values).                                            *)
(***************************************************************************)
EXTENDS Integers, Sequences, FiniteSets, TLC

VARIABLES
    url,        \* Assembly.url
    _info,      \* Assembly._info: the cached status document
    gets,       \* number of status GETs issued on the Assembly's url
    deletes,    \* number of DELETEs issued on the Assembly's url
    okSince,    \* status GETs that delivered a JSON mapping since construction / the last refresh()
    lastInfo,   \* the info document the most recent read obtained
    atCancel,   \* lastInfo as it was when cancel() was last called (since the last refresh())
    op,         \* the last operation performed, <<name, argument>>
    ret,        \* its outcome: <<"return", value>> or <<"raise", exception>>
    resp,       \* the response handed to _parse_response
    call,       \* the arguments of the last Client call
    sent,       \* the params mapping of the last request sent by the Client
    page,       \* assemblies(): local variable page
    pagesize,   \* assemblies(): argument pagesize
    genpc,      \* assemblies(): where the generator is suspended
    items,      \* assemblies(): data['items'] of the current page
    idx,        \* assemblies(): number of items of the current page already yielded
    count,      \* assemblies(): data['count'] of the current page
    requested,  \* the page numbers of the list requests issued so far
    yielded,    \* the ids of the Assemblies yielded so far
    N,          \* the number of assemblies the server holds
    honest      \* every list response so far was the consistent page of the N assemblies

asmVars == <<url, _info, gets, deletes, okSince, lastInfo, atCancel>>
genVars == <<page, pagesize, genpc, items, idx, count, requested, yielded, N, honest>>
vars == <<url, _info, gets, deletes, okSince, lastInfo, atCancel, op, ret, resp, call, sent,
          page, pagesize, genpc, items, idx, count, requested, yielded, N, honest>>

----------------------------------------------------------------------------
(* Bounds of the model *)

MaxGets == 3
MaxDeletes == 1
MaxN == 5
MaxStartPage == 2
MaxPagesize == 2
MaxFetches == 3

----------------------------------------------------------------------------
(* Python values *)

None == <<"None", "">>
Str(s) == <<"str", s>>
PyInt(n) == <<"int", n>>
PyBool(b) == <<"bool", b>>
Dict(m) == <<"dict", m>>
List(s) == <<"list", s>>
Datetime(t) == <<"datetime", t>>

EmptyMap == [k \in {} |-> None]

\* bool(v)
Truthy(v) ==
    CASE v[1] = "None" -> FALSE
      [] v[1] = "str" -> v[2] # ""
      [] v[1] = "int" -> v[2] # 0
      [] v[1] = "bool" -> v[2]
      [] v[1] = "dict" -> DOMAIN v[2] # {}
      [] v[1] = "list" -> Len(v[2]) # 0
      [] OTHER -> TRUE

\* d.get(k): d is a dict value
Get(d, k) == IF k \in DOMAIN d[2] THEN d[2][k] ELSE None

Return(v) == <<"return", v>>
Raise(e) == <<"raise", e>>
NoRet == <<"none", "">>
NoOp == <<"init", "">>

----------------------------------------------------------------------------
(* _parse_response and TransloadItError *)

TransloadItError(message, code, status) == <<"TransloadItError", message, code, status>>

Response(status, json, text) == [status_code |-> status, json |-> json, text |-> text]

IsRemoteError(r) == r[1] = "raise" /\ r[2][1] = "TransloadItError"

\* mutant: the status rule is tried before the body rule
ParseResponseStatusFirst(response) ==
    IF response.status_code < 200 \/ response.status_code >= 400
    THEN Raise(TransloadItError(Str(response.text), None, response.status_code))
    ELSE IF Truthy(response.json) /\ Truthy(Get(response.json, "error"))
    THEN Raise(TransloadItError(Get(response.json, "message"), Get(response.json, "error"),
                                response.status_code))
    ELSE Return(response)

ParseResponse(response) ==
    IF Truthy(response.json) /\ Truthy(Get(response.json, "error"))
    THEN Raise(TransloadItError(Get(response.json, "message"), Get(response.json, "error"),
                                response.status_code))
    ELSE IF response.status_code < 200 \/ response.status_code >= 400
    THEN Raise(TransloadItError(Str(response.text), None, response.status_code))
    ELSE Return(response)

----------------------------------------------------------------------------
(* What the server can answer *)

OkDoc(s) == Dict([k \in {"ok"} |-> Str(s)])
ErrorDoc(e, m) == Dict([k \in {"error", "message"} |-> IF k = "error" THEN Str(e) ELSE Str(m)])

\* JSON bodies of a status document; None is a body that is not JSON
StatusDocs ==
    { None, Dict(EmptyMap),
      OkDoc("ASSEMBLY_COMPLETED"), OkDoc("ASSEMBLY_CANCELED"), OkDoc("ASSEMBLY_EXECUTING"),
      Dict([k \in {"assembly_id"} |-> Str("a0")]) }

StatusResponses ==
    { Response(200, d, "body") : d \in StatusDocs }
      \cup { Response(200, ErrorDoc("ASSEMBLY_NOT_FOUND", "gone"), "body"),
             Response(404, ErrorDoc("ASSEMBLY_NOT_FOUND", "gone"), "body"),
             Response(500, None, "boom") }

DeleteResponses ==
    { Response(200, OkDoc("ASSEMBLY_CANCELED"), "body"), Response(500, None, "boom") }

NoResponse == Response(0, None, "")

\* inputs of _parse_response
ParseInputs ==
    { Response(s, j, t) :
        s \in {199, 200, 302, 399, 400, 404, 500},
        j \in { None, Dict(EmptyMap), OkDoc("ASSEMBLY_COMPLETED"),
                ErrorDoc("INVALID_FILE_META_DATA", "bad"), ErrorDoc("", "bad"),
                Dict([k \in {"error"} |-> Str("SERVER_ERROR")]) },
        t \in {"boom", "body"} }

----------------------------------------------------------------------------
(* The items of the server's assembly list: item i of the result set.  Every
   item has an id; some have no "ok" field, some have a field named "info". *)

ItemFields(i) ==
    {"id"} \cup (IF i % 4 = 3 THEN {} ELSE {"ok"}) \cup (IF i % 2 = 0 THEN {"info"} ELSE {})

Item(i) ==
    [k \in ItemFields(i) |->
        CASE k = "id" -> PyInt(i)
          [] k = "ok" -> Str(CASE i % 4 = 1 -> "ASSEMBLY_COMPLETED"
                               [] i % 4 = 2 -> "ASSEMBLY_CANCELED"
                               [] OTHER -> "ASSEMBLY_EXECUTING")
          [] OTHER -> Str("x")]

----------------------------------------------------------------------------
(* class Assembly *)

NoRead == <<"noread", "">>

\* mutant: the keyword arguments are dropped
AssemblyInitNoKwargs(u, kwargs) == [url |-> u, _info |-> Dict(EmptyMap)]

\* Assembly.__init__(self, url, **kwargs)
AssemblyInit(u, kwargs) == [url |-> u, _info |-> Dict(kwargs)]

\* mutant: the body is cached before the response is parsed
InfoGetStoreFirst(cache, response) ==
    IF Truthy(cache)
    THEN [out |-> Return(cache), cache |-> cache, fetched |-> FALSE]
    ELSE LET p == ParseResponse(response)
         IN  IF p[1] = "raise"
             THEN [out |-> p, cache |-> response.json, fetched |-> TRUE]
             ELSE [out |-> Return(p[2].json), cache |-> p[2].json, fetched |-> TRUE]

\* The property Assembly.info, read with self._info = cache, the server answering
\* `response` to the GET if one is issued: what it returns or raises, the new
\* self._info, and whether the GET was issued.
InfoGet(cache, response) ==
    IF Truthy(cache)
    THEN [out |-> Return(cache), cache |-> cache, fetched |-> FALSE]
    ELSE LET p == ParseResponse(response)
         IN  IF p[1] = "raise"
             THEN [out |-> p, cache |-> cache, fetched |-> TRUE]
             ELSE [out |-> Return(p[2].json), cache |-> p[2].json, fetched |-> TRUE]

\* the responses the server may give to the GET that a read of info issues, if any
Served(cache) == IF Truthy(cache) THEN {NoResponse} ELSE StatusResponses

\* info['ok'] == status
OkIs(info, status) ==
    IF info[1] # "dict" THEN Raise(<<"TypeError", "ok">>)
    ELSE IF "ok" \notin DOMAIN info[2] THEN Raise(<<"KeyError", "ok">>)
    ELSE Return(PyBool(info[2]["ok"] = Str(status)))

\* info.get(name, None)
InfoField(info, name) ==
    IF info[1] # "dict" THEN Raise(<<"AttributeError", "get">>)
    ELSE Return(Get(info, name))

\* what the method or property `name` makes of the info it has read
Outcome(name, arg, info) ==
    CASE name = "completed" -> OkIs(info, "ASSEMBLY_COMPLETED")
      [] name = "canceled" -> OkIs(info, "ASSEMBLY_CANCELED")
      [] name = "getattr" -> InfoField(info, arg)
      [] OTHER -> Return(info)

\* An operation that reads self.info, starting with self._info = start (None when
\* refresh() has just cleared it), and returns what it makes of the info.
ReadStep(name, arg, start, reset) ==
    /\ Truthy(start) \/ gets < MaxGets
    /\ \E response \in Served(start) :
         LET r == InfoGet(start, response)
             returned == r.out[1] = "return"
         IN  /\ _info' = r.cache
             /\ gets' = gets + (IF r.fetched THEN 1 ELSE 0)
             /\ okSince' = (IF reset THEN 0 ELSE okSince)
                             + (IF r.fetched /\ returned /\ r.out[2][1] = "dict" THEN 1 ELSE 0)
             /\ lastInfo' = IF returned THEN <<"read", r.out[2]>>
                            ELSE IF reset THEN NoRead ELSE lastInfo
             /\ atCancel' = IF reset THEN NoRead ELSE atCancel
             /\ op' = <<name, arg>>
             /\ ret' = IF returned THEN Outcome(name, arg, r.out[2]) ELSE r.out
    /\ UNCHANGED <<url, deletes, resp, call, sent>>
    /\ UNCHANGED genVars

\* Assembly.info
Info == ReadStep("info", "", _info, FALSE)

\* Assembly.completed
Completed == ReadStep("completed", "", _info, FALSE)

\* Assembly.canceled
Canceled == ReadStep("canceled", "", _info, FALSE)

\* Assembly.__getattr__(name)
GetAttr(name) == ReadStep("getattr", name, _info, FALSE)

\* Assembly.refresh()
Refresh == ReadStep("refresh", "", None, TRUE)

\* Assembly.cancel()
Cancel ==
    /\ deletes < MaxDeletes
    /\ \E response \in DeleteResponses :
         /\ deletes' = deletes + 1
         /\ ret' = Return(<<"response", response>>)
    /\ op' = <<"cancel", "">>
    /\ atCancel' = lastInfo
    /\ UNCHANGED <<url, _info, gets, okSince, lastInfo, resp, call, sent>>
    /\ UNCHANGED genVars

\* The attribute read a.<name>: the properties of the class are found first,
\* __getattr__ is called for any other name.
Attribute(name) ==
    CASE name = "info" -> Info
      [] name = "completed" -> Completed
      [] name = "canceled" -> Canceled
      [] OTHER -> GetAttr(name)

\* field names read through __getattr__
FieldNames == {"id", "ok", "assembly_id", "nosuch"}

----------------------------------------------------------------------------
(* Specification of one Assembly: constructed with or without keyword
   arguments, then used. *)

GenIdle ==
    /\ page = 1 /\ pagesize = 1 /\ genpc = "unused" /\ items = <<>> /\ idx = 0
    /\ count = 0 /\ requested = <<>> /\ yielded = <<>> /\ N = 0 /\ honest = TRUE

AsmFresh(a) ==
    /\ url = a.url /\ _info = a._info
    /\ gets = 0 /\ deletes = 0 /\ okSince = 0 /\ lastInfo = NoRead /\ atCancel = NoRead

Init ==
    /\ \E a \in { AssemblyInit(Str("http://api2.transloadit.com/assemblies/a0"), EmptyMap) }
              \cup { AssemblyInit(Str("http://api2.transloadit.com/assemblies/a0"), Item(i)) :
                       i \in 1..MaxN } :
         AsmFresh(a)
    /\ op = NoOp /\ ret = NoRet /\ resp = NoResponse /\ call = NoOp /\ sent = None
    /\ GenIdle

Next ==
    \/ Info
    \/ Completed
    \/ Canceled
    \/ \E name \in FieldNames : GetAttr(name)
    \/ Refresh
    \/ Cancel

Spec == Init /\ [][Next]_vars

----------------------------------------------------------------------------
(* Claims about the Assembly, checked under Spec *)

ReadOps == {"info", "completed", "canceled", "getattr", "refresh"}

\* C1 (as stated): whatever document the server returns, at most one status GET
\* delivers a JSON mapping between construction (or a refresh()) and the next
\* refresh(): the document is cached and every later read is served from it.
C1FetchedAtMostOnce == okSince <= 1

\* C5 (as stated): for every info mapping, completed / canceled is the boolean
\* info["ok"] == "ASSEMBLY_COMPLETED" / "ASSEMBLY_CANCELED", false (not an error)
\* when `ok` has another value or is absent.
C5BooleanForEveryMapping ==
    (op[1] \in {"completed", "canceled"} /\ ~IsRemoteError(ret) /\ _info[1] = "dict")
        => ret = Return(PyBool(Get(_info, "ok")
                                 = Str(IF op[1] = "completed" THEN "ASSEMBLY_COMPLETED"
                                                              ELSE "ASSEMBLY_CANCELED")))

\* C6 (as stated): once cancel() has been called, every read obtains the same info
\* mapping as the last read before cancel(), until refresh() is called.
C6ReadsUnchangedAfterCancel ==
    (atCancel # NoRead /\ atCancel[2][1] = "dict" /\ lastInfo[2][1] = "dict")
        => lastInfo = atCancel

C10State ==
    (IsRemoteError(ret) /\ op[1] \in ReadOps)
        => /\ ~Truthy(_info)
           /\ op[1] = "refresh" => _info = None

C10Step ==
    (IsRemoteError(ret) /\ op[1] \in ReadOps /\ deletes' = deletes) => gets' = gets + 1

\* C10: a status fetch that raises the remote error leaves the cache absent (None
\* after a failed refresh(), whatever was cached before), never stores the
\* error-bearing body, and the next read issues a new GET.
C10FailedFetchNotCached == [](C10State) /\ [][C10Step]_vars

\* a refresh() that failed after an earlier fetch
C10Witness == IsRemoteError(ret) /\ op[1] = "refresh" /\ gets >= 2 /\ _info = None

----------------------------------------------------------------------------
(* _parse_response as a function of the response: SpecParse *)

InitParse ==
    /\ resp \in ParseInputs
    /\ op = NoOp /\ ret = NoRet /\ call = NoOp /\ sent = None
    /\ AsmFresh(AssemblyInit(Str(""), EmptyMap))
    /\ GenIdle

DoParse ==
    /\ op = NoOp
    /\ op' = <<"_parse_response", "">>
    /\ ret' = ParseResponse(resp)
    /\ UNCHANGED <<resp, call, sent>>
    /\ UNCHANGED asmVars
    /\ UNCHANGED genVars

SpecParse == InitParse /\ [][DoParse]_vars

BodyError(response) ==
    /\ response.json[1] = "dict"
    /\ "error" \in DOMAIN response.json[2]
    /\ response.json[2]["error"] \notin {None, Str("")}

\* C4: a response whose JSON body has a truthy `error` raises the remote error
\* (body.message, body.error, status) whatever the status; any other response with
\* a status outside [200, 400) raises (raw text, None, status); every other
\* response is returned unchanged.
C4Classification ==
    op[1] = "_parse_response" =>
        /\ BodyError(resp) =>
             ret = Raise(TransloadItError(
                           IF "message" \in DOMAIN resp.json[2] THEN resp.json[2]["message"]
                                                                ELSE None,
                           resp.json[2]["error"], resp.status_code))
        /\ (~BodyError(resp) /\ resp.status_code \notin 200..399) =>
             ret = Raise(TransloadItError(Str(resp.text), None, resp.status_code))
        /\ (~BodyError(resp) /\ resp.status_code \in 200..399) => ret = Return(resp)

\* a body that declares an error on a status outside [200, 400): the body rule wins
C4Witness ==
    /\ op[1] = "_parse_response" /\ BodyError(resp) /\ resp.status_code = 400
    /\ ret = Raise(TransloadItError(Str("bad"), Str("INVALID_FILE_META_DATA"), 400))

----------------------------------------------------------------------------
(* class TransloadIt: request parameters *)

Key == "KEY"

\* the length of timedelta(days=1), in the unit of the model's clock
OneDay == 1

\* dt.strftime('%Y-%m-%d %H:%M:%S') and dt.strftime('%Y/%m/%d %H:%M:%S')
TimeStr(t) == <<"timestr", t>>
SlashTimeStr(t) == <<"slashtimestr", t>>

\* _timestr(dt)
Timestr(dt) ==
    IF dt = None THEN dt
    ELSE IF dt[1] = "datetime" THEN TimeStr(dt[2])
    ELSE IF dt[1] = "int" THEN <<"decstr", dt[2]>>
    ELSE dt

\* TransloadIt._auth(), called when utcnow() = now
Auth(now) ==
    Dict([k \in {"key", "expires"} |->
            IF k = "key" THEN Str(Key) ELSE SlashTimeStr(now + OneDay)])

\* mutant: None values are not skipped
ParamsKeepNone(kwargs, now) ==
    Dict([k \in {"auth"} \cup DOMAIN kwargs |->
            IF k = "auth" THEN Auth(now)
            ELSE IF kwargs[k][1] = "datetime" THEN Timestr(kwargs[k])
            ELSE kwargs[k]])

\* TransloadIt._params(**kwargs)
Params(kwargs, now) ==
    Dict([k \in {"auth"} \cup {x \in DOMAIN kwargs : kwargs[x] # None} |->
            IF k = "auth" THEN Auth(now)
            ELSE IF kwargs[k][1] = "datetime" THEN Timestr(kwargs[k])
            ELSE kwargs[k]])

\* the params of replay_assembly
ReplayParams(args, now) ==
    Params([k \in {"notify_url", "reparse_template"} |->
              IF k = "notify_url" THEN args[k]
              ELSE PyInt(IF Truthy(args[k]) THEN 1 ELSE 0)], now)

\* the params of create_assembly: file is no parameter, it is the upload
CreateParams(args, now) ==
    Params([k \in {"template_id", "steps", "fields", "notify_url", "redirect_url"} |-> args[k]],
           now)

\* the params of one page request of assemblies
ListParams(args, now) ==
    Params([k \in {"page", "pagesize", "type", "fromdate", "todate", "keywords"} |->
              IF k \in {"fromdate", "todate"} THEN Timestr(args[k]) ELSE args[k]], now)

Clock == {0, 1}

NullableUrl == {None, Str("http://example.com/notify")}
NullableDict == {None, Dict([k \in {"x"} |-> Str("y")])}

ReplayArgs ==
    [ {"notify_url", "reparse_template"} -> NullableUrl \cup {PyBool(TRUE), PyBool(FALSE)} ]

CreateArgs ==
    { a \in [ {"template_id", "file", "steps", "fields", "notify_url", "redirect_url"}
                -> NullableUrl \cup NullableDict \cup {Str("t1"), Str("FILE")} ] :
        /\ a["template_id"] \in {Str("t1"), None}
        /\ a["file"] \in {None, Str("FILE")}
        /\ a["steps"] \in NullableDict
        /\ a["fields"] \in NullableDict
        /\ a["notify_url"] \in NullableUrl
        /\ a["redirect_url"] \in NullableUrl }

ListArgs ==
    { a \in [ {"page", "pagesize", "type", "fromdate", "todate", "keywords"}
                -> {None, PyInt(1), PyInt(2), PyInt(100), Str("all"), Str("k"),
                    Str("2012-01-01 00:00:00"), Datetime(7), PyInt(20120101)} ] :
        /\ a["page"] \in {PyInt(1), PyInt(2)}
        /\ a["pagesize"] \in {PyInt(100)}
        /\ a["type"] \in {Str("all"), None}
        /\ a["fromdate"] \in {None, Str("2012-01-01 00:00:00"), Datetime(7)}
        /\ a["todate"] \in {None, Datetime(7), PyInt(20120101)}
        /\ a["keywords"] \in {None, Str("k")} }

\* answers to the POSTs
PostResponses ==
    { Response(200, Dict([k \in {"ok", "assembly_url"} |->
                            IF k = "ok" THEN Str("ASSEMBLY_EXECUTING")
                            ELSE Str("http://api2.transloadit.com/assemblies/a0")]), "body"),
      Response(400, ErrorDoc("INVALID_FILE_META_DATA", "bad"), "body") }

\* A POST of `params` answered by `response`: the call raises, or returns
\* Assembly(response.json['assembly_url']).
Post(name, args, params, files) ==
    \E response \in PostResponses :
        LET r == ParseResponse(response)
        IN  /\ call' = <<name, args>>
            /\ sent' = [params |-> params, files |-> files]
            /\ op' = <<name, "">>
            /\ IF r[1] = "raise"
               THEN /\ ret' = r
                    /\ UNCHANGED asmVars
               ELSE LET a == AssemblyInit(r[2].json[2]["assembly_url"], EmptyMap)
                    IN  /\ ret' = Return(<<"Assembly", a.url>>)
                        /\ url' = a.url
                        /\ _info' = a._info
                        /\ gets' = 0 /\ deletes' = 0 /\ okSince' = 0
                        /\ lastInfo' = NoRead /\ atCancel' = NoRead
            /\ UNCHANGED resp
            /\ UNCHANGED genVars

\* TransloadIt.replay_assembly(assembly_id, notify_url, reparse_template)
ReplayAssembly ==
    \E args \in ReplayArgs, now \in Clock :
        Post("replay_assembly", args, ReplayParams(args, now), None)

\* TransloadIt.replay_assembly_notification(assembly_id)
ReplayAssemblyNotification ==
    \E now \in Clock :
        Post("replay_assembly_notification", EmptyMap, Params(EmptyMap, now), None)

\* TransloadIt.create_assembly(template_id, file, steps, fields, notify_url, redirect_url)
CreateAssembly ==
    \E args \in CreateArgs, now \in Clock :
        Post("create_assembly", args, CreateParams(args, now),
             IF Truthy(args["file"]) THEN List(<<args["file"]>>) ELSE None)

\* One page request of TransloadIt.assemblies(page, pagesize, type, fromdate, todate,
\* keywords): the params built and sent by one iteration of the loop.
ListRequest ==
    \E args \in ListArgs, now \in Clock :
        /\ call' = <<"assemblies", args>>
        /\ sent' = [params |-> ListParams(args, now), files |-> None]
        /\ op' = <<"assemblies", "">>
        /\ ret' = NoRet
        /\ UNCHANGED resp
        /\ UNCHANGED asmVars
        /\ UNCHANGED genVars

InitParams ==
    /\ op = NoOp /\ ret = NoRet /\ call = NoOp /\ sent = None /\ resp = NoResponse
    /\ AsmFresh(AssemblyInit(Str(""), EmptyMap))
    /\ GenIdle

NextParams ==
    \/ ReplayAssembly
    \/ ReplayAssemblyNotification
    \/ CreateAssembly
    \/ ListRequest

SpecParams == InitParams /\ [][NextParams]_vars

----------------------------------------------------------------------------
(* Claims about the request parameters, checked under SpecParams *)

ClientOps == {"replay_assembly", "replay_assembly_notification", "create_assembly", "assemblies"}

\* the arguments of the last call that are fields of params (file is the upload)
ParamArgs == DOMAIN call[2] \ {"file"}

AuthSent ==
    /\ "auth" \in DOMAIN sent.params[2]
    /\ DOMAIN sent.params[2]["auth"][2] = {"key", "expires"}
    /\ sent.params[2]["auth"][2]["key"] = Str(Key)

\* True == 1 and False == 0 in Python
SameValue(v, w) ==
    \/ v = w
    \/ v[1] = "bool" /\ w = PyInt(IF v[2] THEN 1 ELSE 0)

SentAs(k, v) ==
    CASE v[1] = "datetime" -> <<"timestr", v[2]>>
      [] k \in {"fromdate", "todate"} /\ v[1] = "int" -> <<"decstr", v[2]>>
      [] OTHER -> v

----------------------------------------------------------------------------
(* TransloadIt.assemblies(): the paginating generator.

   genpc = "start":   at the top of the while loop, about to request `page`
   genpc = "loop":    in the for loop over the page's items; idx of them have been
                      yielded, and with idx >= 1 the generator is suspended at the
                      yield of item idx
   genpc = "stopped": the generator has returned
   genpc = "raised":  _parse_response has raised out of the generator *)

Min(a, b) == IF a < b THEN a ELSE b
Max(a, b) == IF a > b THEN a ELSE b

\* page p of the server's n assemblies, ps to a page
HonestItems(p, ps, n) ==
    [j \in 1..Max(0, Min(p * ps, n) - (p - 1) * ps) |-> Dict(Item((p - 1) * ps + j))]

ListDoc(c, its) ==
    Dict([k \in {"count", "items"} |-> IF k = "count" THEN PyInt(c) ELSE List(its)])

HonestResponse(p, ps, n) == Response(200, ListDoc(n, HonestItems(p, ps, n)), "body")

\* What the server may answer to the request of page p: the page or a shorter one
\* (down to no items at all) with any count, or an error.
ListResponses(p, ps, n) ==
    { Response(200, ListDoc(c, SubSeq(HonestItems(p, ps, n), 1, k)), "body") :
        c \in 0..(MaxN + 1), k \in 0..Len(HonestItems(p, ps, n)) }
      \cup { Response(200, ErrorDoc("AUTH_EXPIRED", "expired"), "body"),
             Response(500, None, "boom") }

\* 'http://jsondb.transloadit.com.s3.amazonaws.com/assemblies/%s.json' % id
JsonDbUrl(id) == <<"jsondburl", id>>

\* mutant: an empty page does not end the iteration
NeverEmpty(its) == FALSE

\* not num_items
PageIsEmpty(its) == Len(its) = 0

\* mutant: the comparison admits equality
MorePagesOrEqual(pg, ps, cnt) == pg * ps <= cnt

\* mutant: pos is where the page starts, not where it ends
MorePagesFromStart(pg, ps, cnt) == (pg - 1) * ps < cnt

\* pos < count, with pos = page * pagesize
MorePages(pg, ps, cnt) == pg * ps < cnt

\* lines 150-175: request the page, parse the response, leave on an empty page
FetchPage ==
    /\ genpc = "start"
    /\ Len(requested) < MaxFetches
    /\ \E response \in ListResponses(page, pagesize, N) :
         LET r == ParseResponse(response)
         IN  /\ requested' = Append(requested, page)
             /\ honest' = (honest /\ response = HonestResponse(page, pagesize, N))
             /\ op' = <<"assemblies", "">>
             /\ IF r[1] = "raise"
                THEN /\ genpc' = "raised"
                     /\ ret' = r
                     /\ UNCHANGED <<items, idx, count>>
                ELSE /\ count' = r[2].json[2]["count"][2]
                     /\ items' = r[2].json[2]["items"][2]
                     /\ idx' = 0
                     /\ genpc' = IF PageIsEmpty(items') THEN "stopped" ELSE "loop"
                     /\ ret' = NoRet
    /\ UNCHANGED <<page, pagesize, yielded, N, resp, call, sent>>
    /\ UNCHANGED asmVars

\* lines 177-181: yield the next item of the page as an Assembly
YieldItem ==
    /\ genpc = "loop"
    /\ idx < Len(items)
    /\ LET item == items[idx + 1][2]
           a == AssemblyInit(JsonDbUrl(item["id"]), item)
       IN  /\ url' = a.url
           /\ _info' = a._info
           /\ yielded' = Append(yielded, item["id"][2])
           /\ ret' = Return(<<"Assembly", a.url>>)
    /\ idx' = idx + 1
    /\ gets' = 0 /\ deletes' = 0 /\ okSince' = 0 /\ lastInfo' = NoRead /\ atCancel' = NoRead
    /\ op' = <<"assemblies", "">>
    /\ UNCHANGED <<page, pagesize, genpc, items, count, requested, N, honest, resp, call, sent>>

\* lines 183-186: after the last item of the page
EndOfPage ==
    /\ genpc = "loop"
    /\ idx = Len(items)
    /\ IF MorePages(page, pagesize, count)
       THEN /\ page' = page + 1
            /\ genpc' = "start"
       ELSE /\ genpc' = "stopped"
            /\ UNCHANGED page
    /\ op' = <<"assemblies", "">>
    /\ ret' = NoRet
    /\ UNCHANGED <<pagesize, items, idx, count, requested, yielded, N, honest, resp, call, sent>>
    /\ UNCHANGED asmVars

\* the generator is suspended at a yield: its consumer holds the Assembly
Suspended == genpc = "loop" /\ idx >= 1

\* the names the consumer reads on the yielded Assembly
ItemAttrNames == {"id", "ok", "info", "nosuch"}

\* the consumer reads an attribute of the Assembly it was given
ReadYielded == Suspended /\ \E name \in ItemAttrNames : Attribute(name)

InitList ==
    /\ page \in 1..MaxStartPage
    /\ pagesize \in 0..MaxPagesize
    /\ N \in 0..MaxN
    /\ genpc = "start" /\ items = <<>> /\ idx = 0 /\ count = 0
    /\ requested = <<>> /\ yielded = <<>> /\ honest = TRUE
    /\ op = NoOp /\ ret = NoRet /\ call = NoOp /\ sent = None /\ resp = NoResponse
    /\ AsmFresh([url |-> None, _info |-> None])

NextList ==
    \/ FetchPage
    \/ YieldItem
    \/ EndOfPage
    \/ ReadYielded

SpecList == InitList /\ [][NextList]_vars

----------------------------------------------------------------------------
(* Claims about assemblies(), checked under SpecList *)

Last(q) == q[Len(q)]

\* a page has been fetched and parsed, and it is the current one
PageFetched == requested # <<>> /\ genpc \in {"loop", "stopped"}

\* the generator has left the page it fetched last, for the next one
Continued == requested # <<>> /\ genpc = "start"

\* C2 (as stated): after a page is fetched the iteration stops if and only if the
\* page has zero items or the number of items yielded so far has reached the
\* reported count; otherwise it goes on to the next page.
C2StopsOnYieldedCount ==
    /\ genpc = "stopped" => (items = <<>> \/ Len(yielded) >= count)
    /\ Continued => (items # <<>> /\ Len(yielded) < count)

\* C2 (amended): after a page is fetched the iteration stops if and only if the
\* page has zero items or page * pagesize has reached the count that page
\* reports; otherwise, once the page's items are yielded, page is incremented by
\* one and that page is requested next.
C2StopsOnPosition ==
    /\ (PageFetched /\ items = <<>>) => genpc = "stopped"
    /\ genpc = "stopped" => (items = <<>> \/ (idx = Len(items) /\ page * pagesize >= count))
    /\ Continued =>
         /\ items # <<>> /\ idx = Len(items)
         /\ (page - 1) * pagesize < count
         /\ page = Last(requested) + 1
    /\ (genpc = "loop" /\ requested # <<>>) => page = Last(requested)

\* the iteration stopped on a page that was not empty, before the number of items
\* yielded reached the count it reported
C2Witness ==
    /\ genpc = "stopped" /\ items # <<>> /\ Len(yielded) < count
    /\ Len(requested) >= 2

\* an empty page has been fetched
EmptyPageSeen == requested # <<>> /\ items = <<>> /\ genpc # "raised"

\* C3: once a fetched page has zero items the iteration is over, whatever count the
\* page reports: the generator has returned, and no item is yielded and no page is
\* requested afterwards.
C3EmptyPageStops ==
    /\ [](EmptyPageSeen => genpc = "stopped")
    /\ [][EmptyPageSeen => (requested' = requested /\ yielded' = yielded)]_vars

\* an empty page that reports more items than were yielded, after a page with items
C3Witness ==
    /\ EmptyPageSeen /\ genpc = "stopped"
    /\ Len(requested) >= 2 /\ count > Len(yielded) /\ count > page * pagesize

\* the attribute name of the last read
ReadName == IF op[1] = "getattr" THEN op[2] ELSE op[1]

IsRead == op[1] \in {"info", "completed", "canceled", "getattr"}

\* the names Assembly itself defines: these are never looked up in the info mapping
ClassAttributes ==
    {"url", "_info", "info", "completed", "canceled", "refresh", "cancel"}

\* C7 (as stated): reading any field name present in the item on the yielded
\* Assembly returns the item's value, and no status GET is issued.
C7EveryFieldRead ==
    (Suspended /\ IsRead) =>
        /\ gets = 0
        /\ ReadName \in DOMAIN items[idx][2] => ret = Return(items[idx][2][ReadName])

\* C7 (amended): reading a field name present in the item that is not a name the
\* Assembly class defines returns the item's value; no read of the yielded
\* Assembly issues a status GET, and its cached info is the whole item.
C7SeededFieldRead ==
    Suspended =>
        /\ _info = items[idx]
        /\ gets = 0
        /\ (IsRead /\ ReadName \in DOMAIN items[idx][2] /\ ReadName \notin ClassAttributes)
              => ret = Return(items[idx][2][ReadName])

\* the "ok" field read on a yielded Assembly whose item has it
C7Witness ==
    /\ Suspended /\ op = <<"getattr", "ok">>
    /\ "ok" \in DOMAIN items[idx][2] /\ ret = Return(items[idx][2]["ok"])

\* ceil(n / ps), ps >= 1
CeilDiv(n, ps) == (n + ps - 1) \div ps

\* the server has answered consistently, from page 1 on, pages of pagesize >= 1
Consistent == honest /\ pagesize >= 1 /\ requested # <<>> /\ requested[1] = 1

\* C8 (as stated): served consistently from page 1, the sequence yields the N items
\* in server order, each once, with exactly ceil(N / pagesize) requests of
\* consecutive pages.
C8CeilFetches ==
    (Consistent /\ genpc = "stopped") =>
        /\ yielded = [i \in 1..N |-> i]
        /\ requested = [i \in 1..CeilDiv(N, pagesize) |-> i]

\* C8 (amended): served consistently from page 1, the sequence yields the N items
\* in server order, each once, with requests of consecutive pages 1, 2, ...:
\* exactly ceil(N / pagesize) of them when N >= 1, and exactly one when N = 0.
C8ServerOrder ==
    Consistent =>
        /\ yielded = [i \in 1..Len(yielded) |-> i]
        /\ requested = [i \in 1..Len(requested) |-> i]
        /\ genpc = "stopped" =>
             /\ Len(yielded) = N
             /\ Len(requested) = Max(1, CeilDiv(N, pagesize))

\* five items served two to a page: two full pages and a last page of one
C8Witness ==
    /\ Consistent /\ genpc = "stopped" /\ N = 5 /\ pagesize = 2
    /\ requested = <<1, 2, 3>> /\ yielded = <<1, 2, 3, 4, 5>>

====
